---- MODULE Spec2Model ----
(***************************************************************************)
(* Model of Android/MorganaSchedualer/images/icon_resize.py: a script that *)
(* checks that a fixed source image exists, opens it, and for every entry  *)
(* of a fixed size table creates directories and saves a resized copy.     *)
(*                                                                         *)
(* A path is a sequence of components below the root.  The file system is  *)
(* the pair (dirs, files): the set of directories and a function from the  *)
(* regular files to their pixel size.  One action models one statement of  *)
(* the script; a run of the script is one pass from pc = "check" to        *)
(* pc = "done" (normal end) or pc = "aborted" (uncaught exception).        *)
(***************************************************************************)
EXTENDS Integers, Sequences, FiniteSets, TLC

VARIABLES pc, run, failures, cwd, dirs, files, start, prevOk,
          img, idx, folder_name, size, resized_img, icon_dir,
          output_filename, console, log, failed

vars == <<pc, run, failures, cwd, dirs, files, start, prevOk,
          img, idx, folder_name, size, resized_img, icon_dir,
          output_filename, console, log, failed>>

\* Number of times the script is started, one after the other.
MaxRuns == 2
\* Number of failures injected by the environment (permissions, disk, data).
MaxFailures == 1

----------------------------------------------------------------------------
\* Configuration of the script

original_image_path ==
    <<"Users", "elad", "code", "playground", "Arduino", "Android",
      "MorganaSchedualer", "images", "logo.png">>

dirname(p) == SubSeq(p, 1, Len(p) - 1)

main_dir == dirname(original_image_path)

icon_sizes_sorted ==
    << [label |-> "mipmap-hdpi",    size |-> <<72, 72>>],
       [label |-> "mipmap-mdpi",    size |-> <<48, 48>>],
       [label |-> "mipmap-xhdpi",   size |-> <<96, 96>>],
       [label |-> "mipmap-xxhdpi",  size |-> <<144, 144>>],
       [label |-> "mipmap-xxxhdpi", size |-> <<192, 192>>] >>

\* The dict literal; iteration follows insertion order.
icon_sizes ==
    << [label |-> "mipmap-xxxhdpi", size |-> <<192, 192>>],
       [label |-> "mipmap-xxhdpi",  size |-> <<144, 144>>],
       [label |-> "mipmap-xhdpi",   size |-> <<96, 96>>],
       [label |-> "mipmap-hdpi",    size |-> <<72, 72>>],
       [label |-> "mipmap-mdpi",    size |-> <<48, 48>>] >>

----------------------------------------------------------------------------
\* Paths and the file system

\* os.path.join of a directory and a relative path
join(a, b) == a \o b

\* What the operating system makes of a path holding ".." components
RECURSIVE Resolve(_)
Resolve(p) ==
    IF p = <<>> THEN <<>>
    ELSE LET r == Resolve(SubSeq(p, 1, Len(p) - 1))
             last == p[Len(p)]
         IN  IF last = ".."
             THEN (IF r = <<>> THEN <<>> ELSE SubSeq(r, 1, Len(r) - 1))
             ELSE Append(r, last)

Prefixes(p) == { SubSeq(p, 1, n) : n \in 1..Len(p) }

PathExistsAlways(p) == TRUE

\* os.path.exists: true of a directory as well as of a regular file
PathExists(p) == Resolve(p) \in dirs \/ Resolve(p) \in DOMAIN files

makedirsLeafOnly(d, p) == d \cup {Resolve(p)}

\* os.makedirs: the leaf and every missing parent
makedirs(d, p) == d \cup Prefixes(Resolve(p))

\* os.makedirs raises when a component of the path is a regular file
makedirsRaises(p) == \E q \in Prefixes(Resolve(p)) : q \in DOMAIN files

resizeKeepAspect(im, sz) ==
    LET w == im.size[1]
        h == im.size[2]
    IN  [out  |-> [size |-> IF w >= h
                            THEN <<sz[1], (h * sz[1]) \div w>>
                            ELSE <<(w * sz[2]) \div h, sz[2]>>],
         self |-> im]

resizeInPlace(im, sz) ==
    [out |-> [size |-> sz], self |-> [im EXCEPT !.size = sz]]

\* Image.resize: a new image of exactly the requested size; the receiver
\* is left as it was.
resize(im, sz) == [out |-> [size |-> sz], self |-> im]

output_filename_fresh(d) ==
    IF Resolve(join(d, <<"ic_launcher.png">>)) \in DOMAIN files
    THEN join(d, <<"ic_launcher_1.png">>)
    ELSE join(d, <<"ic_launcher.png">>)

\* os.path.join(icon_dir, 'ic_launcher.png')
output_filename_of(d) == join(d, <<"ic_launcher.png">>)

\* os.path.join(main_dir, "../app/src/main/res", folder_name)
icon_dir_of(f) == join(join(main_dir, <<"..", "app", "src", "main", "res">>), <<f>>)

----------------------------------------------------------------------------
\* Console lines and the record of file-system and image operations

NoImage == [open |-> FALSE, size |-> <<0, 0>>]
NoFailure == [k |-> -1, step |-> "none"]

Line(kind, path, sz) == [kind |-> kind, path |-> path, size |-> sz]
NotFoundLine1 == Line("not_found", original_image_path, <<0, 0>>)
NotFoundLine2 == Line("save_logo_hint", <<>>, <<0, 0>>)
ProcessingLine == Line("processing", original_image_path, <<0, 0>>)
IconLine(path, sz) == Line("icon_created", path, sz)
DoneLine == Line("done", <<>>, <<0, 0>>)

Event(op, path) == [op |-> op, path |-> path, idx |-> idx]

\* A file whose write was cut short holds no image.
Truncated == <<0, 0>>

----------------------------------------------------------------------------
\* Initial states: the disk and the working directory the script may meet

Labels == { icon_sizes[i].label : i \in 1..Len(icon_sizes) }
res_dir == Resolve(join(main_dir, <<"..", "app", "src", "main", "res">>))

SourceSizes == { <<512, 512>>, <<300, 200>> }
StaleSize == <<64, 64>>
CwdChoices == { main_dir, res_dir, <<"tmp">> }
PreChoices == { {}, {"mipmap-xxxhdpi"}, {"mipmap-hdpi", "mipmap-mdpi"}, Labels }
\* Labels whose place under res is taken by a regular file
BlockChoices == { {}, {"mipmap-xhdpi"} }

InitDirs(c, pre) ==
    Prefixes(main_dir) \cup Prefixes(c)
      \cup UNION { Prefixes(Append(res_dir, l)) : l \in pre }

InitFiles(srcKind, srcSize, pre, stale, blocked) ==
    LET out == IF stale
               THEN { Append(Append(res_dir, l), "ic_launcher.png") : l \in pre }
               ELSE {}
        blk == { Append(res_dir, l) : l \in blocked }
        src == IF srcKind = "file" THEN {original_image_path} ELSE {}
    IN  [p \in out \cup blk \cup src |->
            IF p = original_image_path THEN srcSize ELSE StaleSize]

Init ==
    \E srcKind \in {"absent", "dir", "file"}, srcSize \in SourceSizes,
       c \in CwdChoices, pre \in PreChoices, stale \in BOOLEAN,
       blocked \in BlockChoices :
      /\ (srcKind # "file") => srcSize = <<512, 512>>
      /\ (pre = {}) => ~stale
      /\ (blocked # {}) => (pre = {"mipmap-xxxhdpi"} /\ srcKind = "file")
      /\ cwd = c
      /\ dirs = InitDirs(c, pre)
               \cup (IF srcKind = "dir" THEN {original_image_path} ELSE {})
      /\ files = InitFiles(srcKind, srcSize, pre, stale, blocked)
      /\ start = [dirs |-> dirs, files |-> files]
      /\ pc = "check"
      /\ run = 1
      /\ failures = 0
      /\ prevOk = FALSE
      /\ img = NoImage
      /\ idx = 0
      /\ folder_name = ""
      /\ size = <<0, 0>>
      /\ resized_img = [size |-> <<0, 0>>]
      /\ icon_dir = <<>>
      /\ output_filename = <<>>
      /\ console = <<>>
      /\ log = <<>>
      /\ failed = NoFailure

----------------------------------------------------------------------------
\* Uncaught exceptions

OnErrorCaught == "print_icon"

\* Nothing in the script catches an exception: the interpreter stops.
OnError == "aborted"

\* An exception raised at `step`: the with-block releases the image on the
\* way out, and control goes where OnError says.
Raise(step) ==
    /\ pc' = OnError
    /\ failed' = [k |-> idx, step |-> step]
    /\ img' = [img EXCEPT !.open = FALSE]
    /\ log' = IF img.open THEN Append(log, Event("close", original_image_path))
              ELSE log

EnvMayFail == failures < MaxFailures

----------------------------------------------------------------------------
\* The statements of the script

\* if not os.path.exists(original_image_path):
CheckExists ==
    /\ pc = "check"
    /\ pc' = IF ~PathExists(original_image_path) THEN "report_not_found" ELSE "open"
    /\ UNCHANGED <<run, failures, cwd, dirs, files, start, prevOk, img, idx,
                   folder_name, size, resized_img, icon_dir, output_filename,
                   console, log, failed>>

ReportNotFoundThenDone ==
    /\ pc = "report_not_found"
    /\ console' = console \o <<NotFoundLine1, NotFoundLine2, DoneLine>>
    /\ pc' = "done"
    /\ UNCHANGED <<run, failures, cwd, dirs, files, start, prevOk, img, idx,
                   folder_name, size, resized_img, icon_dir, output_filename,
                   log, failed>>

\* the two print calls of the if branch; the script then ends
ReportNotFound ==
    /\ pc = "report_not_found"
    /\ console' = console \o <<NotFoundLine1, NotFoundLine2>>
    /\ pc' = "done"
    /\ UNCHANGED <<run, failures, cwd, dirs, files, start, prevOk, img, idx,
                   folder_name, size, resized_img, icon_dir, output_filename,
                   log, failed>>

\* with Image.open(original_image_path) as img:
Open ==
    /\ pc = "open"
    /\ original_image_path \in DOMAIN files
    /\ img' = [open |-> TRUE, size |-> files[original_image_path]]
    /\ log' = Append(log, Event("open", original_image_path))
    /\ pc' = "print_processing"
    /\ UNCHANGED <<run, failures, cwd, dirs, files, start, prevOk, idx,
                   folder_name, size, resized_img, icon_dir, output_filename,
                   console, failed>>

\* Image.open of a directory or of a path that is not there raises.
OpenRaises ==
    /\ pc = "open"
    /\ original_image_path \notin DOMAIN files
    /\ Raise("open")
    /\ UNCHANGED <<run, failures, cwd, dirs, files, start, prevOk, idx,
                   folder_name, size, resized_img, icon_dir, output_filename,
                   console>>

\* Image.open of an unreadable or malformed file raises.
OpenFails ==
    /\ pc = "open"
    /\ original_image_path \in DOMAIN files
    /\ EnvMayFail
    /\ failures' = failures + 1
    /\ Raise("open")
    /\ UNCHANGED <<run, cwd, dirs, files, start, prevOk, idx,
                   folder_name, size, resized_img, icon_dir, output_filename,
                   console>>

\* print(f"... {original_image_path}")
PrintProcessing ==
    /\ pc = "print_processing"
    /\ console' = Append(console, ProcessingLine)
    /\ pc' = "loop"
    /\ UNCHANGED <<run, failures, cwd, dirs, files, start, prevOk, img, idx,
                   folder_name, size, resized_img, icon_dir, output_filename,
                   log, failed>>

\* for folder_name, size in icon_sizes.items():
LoopNext ==
    /\ pc = "loop"
    /\ IF idx < Len(icon_sizes)
       THEN /\ idx' = idx + 1
            /\ folder_name' = icon_sizes[idx + 1].label
            /\ size' = icon_sizes[idx + 1].size
            /\ pc' = "mk_cwd"
       ELSE /\ pc' = "exit_with"
            /\ UNCHANGED <<idx, folder_name, size>>
    /\ UNCHANGED <<run, failures, cwd, dirs, files, start, prevOk, img,
                   resized_img, icon_dir, output_filename, console, log, failed>>

\* if not os.path.exists(folder_name): os.makedirs(folder_name)
\* (a relative path: the operating system resolves it against the working
\* directory)
MakeCwdDir ==
    /\ pc = "mk_cwd"
    /\ LET p == join(cwd, <<folder_name>>)
       IN  IF ~PathExists(p)
           THEN /\ ~makedirsRaises(p)
                /\ dirs' = makedirs(dirs, p)
                /\ log' = Append(log, Event("makedirs", Resolve(p)))
           ELSE UNCHANGED <<dirs, log>>
    /\ pc' = "resize"
    /\ UNCHANGED <<run, failures, cwd, files, start, prevOk, img, idx,
                   folder_name, size, resized_img, icon_dir, output_filename,
                   console, failed>>

MakeCwdDirFails ==
    /\ pc = "mk_cwd"
    /\ ~PathExists(join(cwd, <<folder_name>>))
    /\ IF makedirsRaises(join(cwd, <<folder_name>>))
       THEN UNCHANGED failures
       ELSE EnvMayFail /\ failures' = failures + 1
    /\ Raise("mk_cwd")
    /\ UNCHANGED <<run, cwd, dirs, files, start, prevOk, idx,
                   folder_name, size, resized_img, icon_dir, output_filename,
                   console>>

\* resized_img = img.resize(size, Image.Resampling.LANCZOS)
Resize ==
    /\ pc = "resize"
    /\ resized_img' = resize(img, size).out
    /\ img' = resize(img, size).self
    /\ log' = Append(log, Event("resize", <<>>))
    /\ pc' = "mk_dest"
    /\ UNCHANGED <<run, failures, cwd, dirs, files, start, prevOk, idx,
                   folder_name, size, icon_dir, output_filename, console, failed>>

\* the pixel data is decoded here: a malformed image or a lack of memory
\* raises
ResizeFails ==
    /\ pc = "resize"
    /\ EnvMayFail
    /\ failures' = failures + 1
    /\ Raise("resize")
    /\ UNCHANGED <<run, cwd, dirs, files, start, prevOk, idx,
                   folder_name, size, resized_img, icon_dir, output_filename,
                   console>>

\* icon_dir = os.path.join(main_dir, "../app/src/main/res", folder_name)
\* if not os.path.exists(icon_dir): os.makedirs(icon_dir)
MakeDestDir ==
    /\ pc = "mk_dest"
    /\ icon_dir' = icon_dir_of(folder_name)
    /\ IF ~PathExists(icon_dir')
       THEN /\ ~makedirsRaises(icon_dir')
            /\ dirs' = makedirs(dirs, icon_dir')
            /\ log' = Append(log, Event("makedirs", Resolve(icon_dir')))
       ELSE UNCHANGED <<dirs, log>>
    /\ pc' = "save"
    /\ UNCHANGED <<run, failures, cwd, files, start, prevOk, img, idx,
                   folder_name, size, resized_img, output_filename,
                   console, failed>>

MakeDestDirFails ==
    /\ pc = "mk_dest"
    /\ icon_dir' = icon_dir_of(folder_name)
    /\ ~PathExists(icon_dir')
    /\ IF makedirsRaises(icon_dir')
       THEN UNCHANGED failures
       ELSE EnvMayFail /\ failures' = failures + 1
    /\ Raise("mk_dest")
    /\ UNCHANGED <<run, cwd, dirs, files, start, prevOk, idx,
                   folder_name, size, resized_img, output_filename, console>>

\* The file can be opened for writing: its directory is there and the name
\* is not taken by a directory.
CanWrite(p) == dirname(Resolve(p)) \in dirs /\ Resolve(p) \notin dirs

\* output_filename = os.path.join(icon_dir, 'ic_launcher.png')
\* resized_img.save(output_filename)
Save ==
    /\ pc = "save"
    /\ output_filename' = output_filename_of(icon_dir)
    /\ CanWrite(output_filename')
    /\ files' = (Resolve(output_filename') :> resized_img.size) @@ files
    /\ log' = Append(log, Event("save", Resolve(output_filename')))
    /\ pc' = "print_icon"
    /\ UNCHANGED <<run, failures, cwd, dirs, start, prevOk, img, idx,
                   folder_name, size, resized_img, icon_dir, console, failed>>

\* the directory of the output file is missing, or is no directory
SaveRaises ==
    /\ pc = "save"
    /\ output_filename' = output_filename_of(icon_dir)
    /\ ~CanWrite(output_filename')
    /\ Raise("save")
    /\ UNCHANGED <<run, failures, cwd, dirs, files, start, prevOk, idx,
                   folder_name, size, resized_img, icon_dir, console>>

\* the write fails (permissions, disk full): the file is not written, or a
\* file cut short is left behind
SaveFails ==
    /\ pc = "save"
    /\ output_filename' = output_filename_of(icon_dir)
    /\ CanWrite(output_filename')
    /\ EnvMayFail
    /\ failures' = failures + 1
    /\ \/ UNCHANGED files
       \/ files' = (Resolve(output_filename') :> Truncated) @@ files
    /\ Raise("save")
    /\ UNCHANGED <<run, cwd, dirs, start, prevOk, idx,
                   folder_name, size, resized_img, icon_dir, console>>

\* print(f"... {output_filename} (... {size[0]}x{size[1]})")
PrintIcon ==
    /\ pc = "print_icon"
    /\ console' = Append(console, IconLine(output_filename, size))
    /\ pc' = "loop"
    /\ UNCHANGED <<run, failures, cwd, dirs, files, start, prevOk, img, idx,
                   folder_name, size, resized_img, icon_dir, output_filename,
                   log, failed>>

\* the end of the with-block
ExitWith ==
    /\ pc = "exit_with"
    /\ img' = [img EXCEPT !.open = FALSE]
    /\ log' = Append(log, Event("close", original_image_path))
    /\ pc' = "print_done"
    /\ UNCHANGED <<run, failures, cwd, dirs, files, start, prevOk, idx,
                   folder_name, size, resized_img, icon_dir, output_filename,
                   console, failed>>

\* the last print of the else branch
PrintDone ==
    /\ pc = "print_done"
    /\ console' = Append(console, DoneLine)
    /\ pc' = "done"
    /\ UNCHANGED <<run, failures, cwd, dirs, files, start, prevOk, img, idx,
                   folder_name, size, resized_img, icon_dir, output_filename,
                   log, failed>>

\* The run went through the else branch to its end.
Completed == pc = "done" /\ Len(log) > 0

\* The script is started again, on the disk the run before left.
Rerun ==
    /\ pc \in {"done", "aborted"}
    /\ run < MaxRuns
    /\ run' = run + 1
    /\ prevOk' = Completed
    /\ start' = [dirs |-> dirs, files |-> files]
    /\ pc' = "check"
    /\ img' = NoImage
    /\ idx' = 0
    /\ folder_name' = ""
    /\ size' = <<0, 0>>
    /\ resized_img' = [size |-> <<0, 0>>]
    /\ icon_dir' = <<>>
    /\ output_filename' = <<>>
    /\ console' = <<>>
    /\ log' = <<>>
    /\ failed' = NoFailure
    /\ UNCHANGED <<failures, cwd, dirs, files>>

Next ==
    \/ CheckExists
    \/ ReportNotFound
    \/ Open
    \/ OpenRaises
    \/ OpenFails
    \/ PrintProcessing
    \/ LoopNext
    \/ MakeCwdDir
    \/ MakeCwdDirFails
    \/ Resize
    \/ ResizeFails
    \/ MakeDestDir
    \/ MakeDestDirFails
    \/ Save
    \/ SaveRaises
    \/ SaveFails
    \/ PrintIcon
    \/ ExitWith
    \/ PrintDone
    \/ Rerun

Spec == Init /\ [][Next]_vars

----------------------------------------------------------------------------
\* What the properties below refer to, written out from their statements

ClaimOrder ==
    <<"mipmap-xxxhdpi", "mipmap-xxhdpi", "mipmap-xhdpi", "mipmap-hdpi",
      "mipmap-mdpi">>

ClaimSizes ==
    [l \in {"mipmap-xxxhdpi", "mipmap-xxhdpi", "mipmap-xhdpi", "mipmap-hdpi",
            "mipmap-mdpi"} |->
        CASE l = "mipmap-xxxhdpi" -> <<192, 192>>
          [] l = "mipmap-xxhdpi"  -> <<144, 144>>
          [] l = "mipmap-xhdpi"   -> <<96, 96>>
          [] l = "mipmap-hdpi"    -> <<72, 72>>
          [] l = "mipmap-mdpi"    -> <<48, 48>>]

ResRoot ==
    <<"Users", "elad", "code", "playground", "Arduino", "Android",
      "MorganaSchedualer", "app", "src", "main", "res">>

ExpectedOut(l) == ResRoot \o <<l, "ic_launcher.png">>
ExpectedOuts == { ExpectedOut(ClaimOrder[i]) : i \in 1..Len(ClaimOrder) }

IsPrefix(s, t) == Len(s) <= Len(t) /\ SubSeq(t, 1, Len(s)) = s
IsSaveEvent(e) == e.op = "save"
IsIconLine(l) == l.kind = "icon_created"
Saves == SelectSeq(log, IsSaveEvent)
SavedPaths == { Saves[i].path : i \in 1..Len(Saves) }
IconLines == SelectSeq(console, IsIconLine)

SourceMissingAtStart ==
    /\ original_image_path \notin start.dirs
    /\ original_image_path \notin DOMAIN start.files
SourceIsFileAtStart == original_image_path \in DOMAIN start.files

\* Paths the run has created, and files it has written or changed
CreatedDirs == dirs \ start.dirs
WrittenFiles ==
    { p \in DOMAIN files :
        p \notin DOMAIN start.files \/ files[p] # start.files[p] } \cup SavedPaths

\* The console with every printed path resolved
ConsoleView ==
    [i \in 1..Len(console) |->
        [console[i] EXCEPT !.path = Resolve(console[i].path)]]
ExpectedConsole ==
    <<ProcessingLine>>
      \o [i \in 1..Len(ClaimOrder) |->
            IconLine(ExpectedOut(ClaimOrder[i]), ClaimSizes[ClaimOrder[i]])]
      \o <<DoneLine>>

----------------------------------------------------------------------------
\* C1: when the source path does not exist at the start of the run, the run
\* prints the two-line message, creates no directory, writes no file, never
\* opens the image, never enters the loop, and ends normally.
C1_MissingSourceNoEffect ==
    SourceMissingAtStart =>
        /\ pc \in {"check", "report_not_found", "done"}
        /\ dirs = start.dirs
        /\ files = start.files
        /\ log = <<>>
        /\ ~img.open
        /\ idx = 0
        /\ failed = NoFailure
        /\ console = IF pc = "done" THEN <<NotFoundLine1, NotFoundLine2>> ELSE <<>>

C1_Witness == SourceMissingAtStart /\ pc = "done" /\ Len(console) = 2

\* C2: when a run on an existing image ends without a failure, exactly five
\* files have been written, one ic_launcher.png under res/<label> for each
\* label of the table, each of exactly the label's size whatever the size of
\* the source, and no other file has been created or changed.
C2_ExactlyNOutputs ==
    Completed =>
        /\ Len(Saves) = 5
        /\ SavedPaths = ExpectedOuts
        /\ \A l \in DOMAIN ClaimSizes :
              /\ ExpectedOut(l) \in DOMAIN files
              /\ files[ExpectedOut(l)] = ClaimSizes[l]
        /\ WrittenFiles \subseteq ExpectedOuts

C2_Witness ==
    /\ Completed
    /\ start.files[original_image_path] = <<300, 200>>
    /\ files[ExpectedOut("mipmap-mdpi")] = <<48, 48>>

\* C3: nothing is created or written outside <dir of source>/../app/src/main/res
\* (the missing parents of res count as part of it); in particular nothing
\* is created in the working directory.
C3_NothingOutsideRes ==
    \A p \in CreatedDirs \cup WrittenFiles :
        IsPrefix(ResRoot, p) \/ IsPrefix(p, ResRoot)

\* C4: whenever ic_launcher.png is written its directory and all the parents
\* of it exist; a directory that was absent is created by the run before the
\* save, a directory already present is left in place, and either way the
\* file saved has the size of the table.
C4_DirectoryBeforeSave ==
    /\ start.dirs \subseteq dirs
    /\ (pc = "save" /\ Resolve(icon_dir) \notin DOMAIN files) =>
          Prefixes(Resolve(icon_dir)) \subseteq dirs
    /\ \A i \in 1..Len(log) :
          log[i].op = "save" =>
             LET d == dirname(log[i].path)
             IN  /\ Prefixes(d) \subseteq dirs
                 /\ d = Append(ResRoot, ClaimOrder[log[i].idx])
                 /\ files[log[i].path] = ClaimSizes[ClaimOrder[log[i].idx]]
                 /\ (d \notin start.dirs) <=>
                       \E j \in 1..(i - 1) :
                           log[j].op = "makedirs" /\ log[j].path = d

C4_Witness ==
    /\ pc = "print_icon"
    /\ Len(Saves) = 2
    /\ dirname(Saves[1].path) \in start.dirs
    /\ dirname(Saves[2].path) \notin start.dirs
    /\ ResRoot \in start.dirs

\* C5: a run that completes right after a run that completed leaves the disk
\* as it found it: it writes the same five paths again, and the files and
\* their sizes, and the directories, are those the first run left.
C5_RerunIdempotent ==
    (run >= 2 /\ prevOk /\ Completed) =>
        /\ SavedPaths = ExpectedOuts
        /\ SavedPaths \subseteq DOMAIN start.files
        /\ files = start.files
        /\ dirs = start.dirs

C5_Witness == run = 2 /\ prevOk /\ Completed

\* C6: the entries are processed one after the other in the order
\* xxxhdpi, xxhdpi, xhdpi, hdpi, mdpi: the files written so far are those of
\* a prefix of that order, and nothing is done for entry k+1 before the file
\* of entry k is written.
C6_TableOrder ==
    /\ Len(Saves) <= Len(ClaimOrder)
    /\ \A i \in 1..Len(Saves) : Saves[i].path = ExpectedOut(ClaimOrder[i])
    /\ \A i, j \in 1..Len(log) : i < j => log[i].idx <= log[j].idx
    /\ \A i \in 1..Len(log) :
          (log[i].op \in {"makedirs", "resize", "save"} /\ log[i].idx > 1) =>
             \E j \in 1..(i - 1) :
                 log[j].op = "save" /\ log[j].idx = log[i].idx - 1
    /\ (pc \in {"mk_cwd", "resize", "mk_dest", "save"}) => Len(Saves) = idx - 1

C6_Witness == pc = "resize" /\ idx = 4 /\ Len(Saves) = 3

\* C7: a failure of a step is not caught: the run is over at that step, no
\* later entry is processed, the completion line is not printed, and the
\* files written for the entries before it are still there with their sizes.
C7_FailureAborts ==
    (failed # NoFailure) =>
        /\ pc = "aborted"
        /\ idx = failed.k
        /\ \A i \in 1..Len(console) : console[i] # DoneLine
        /\ Len(Saves) = (IF idx = 0 THEN 0 ELSE idx - 1)
        /\ \A i \in 1..Len(Saves) :
              /\ Saves[i].path \in DOMAIN files
              /\ files[Saves[i].path] = ClaimSizes[ClaimOrder[i]]
        /\ ~img.open

C7_Witness ==
    /\ pc = "aborted"
    /\ failed.step = "save"
    /\ failed.k = 3
    /\ Len(Saves) = 2

\* C8: whenever the source path is not an existing regular file at the start
\* of the run (absent, or a directory), the run does not end abruptly and
\* touches nothing.
C8_NotARegularFileIsReported ==
    (~SourceIsFileAtStart) =>
        /\ pc # "aborted"
        /\ log = <<>>
        /\ (pc = "done" => console = <<NotFoundLine1, NotFoundLine2>>)

\* C9: the console of a run on an existing image is a prefix of: the
\* processing line, one progress line per entry in table order, the
\* completion line; it is all of it when the run completes.  A progress line
\* is printed only after its file is written, the completion line only after
\* the last file, and never when the source is missing.
C9_ConsoleSequence ==
    /\ SourceIsFileAtStart => IsPrefix(ConsoleView, ExpectedConsole)
    /\ Completed => ConsoleView = ExpectedConsole
    /\ Len(IconLines) <= Len(Saves)
    /\ Len(Saves) <= Len(IconLines) + 1
    /\ (\E i \in 1..Len(console) : console[i] = DoneLine) =>
          /\ Len(Saves) = 5
          /\ console[Len(console)] = DoneLine
          /\ pc = "done"
    /\ (console # <<>> /\ SourceIsFileAtStart) =>
          (log # <<>> /\ log[1].op = "open")
    /\ SourceMissingAtStart =>
          \A i \in 1..Len(console) : console[i] # DoneLine

C9_Witness == Completed /\ Len(console) = 7 /\ Len(IconLines) = 5

\* C10: the image is opened once, before the first iteration; it is open
\* during every iteration and nothing is done after it is released; a run
\* that completes releases it after the fifth save.  The source file is never
\* written, the opened image keeps its size, and each entry is processed
\* with the label and size the table gives it.
C10_SourceOpenedOnceReadOnly ==
    /\ Cardinality({ i \in 1..Len(log) : log[i].op = "open" }) <= 1
    /\ (log # <<>>) => (log[1].op = "open" /\ log[1].idx = 0)
    /\ (pc \in {"print_processing", "loop", "mk_cwd", "resize", "mk_dest",
                "save", "print_icon", "exit_with"}) => img.open
    /\ \A i \in 1..Len(log) : log[i].op = "close" => (i = Len(log) /\ ~img.open)
    /\ Completed =>
          /\ log[Len(log)].op = "close"
          /\ Len(Saves) = 5
    /\ img.open => img.size = start.files[original_image_path]
    /\ SourceIsFileAtStart =>
          /\ original_image_path \in DOMAIN files
          /\ files[original_image_path] = start.files[original_image_path]
    /\ original_image_path \notin SavedPaths
    /\ (pc \in {"mk_cwd", "resize", "mk_dest", "save", "print_icon"}) =>
          /\ folder_name = ClaimOrder[idx]
          /\ size = ClaimSizes[folder_name]

C10_Witness ==
    /\ Completed
    /\ Len(log) > 10
    /\ log[1].op = "open"
    /\ log[Len(log)].op = "close"
    /\ ~img.open

====
